---- MODULE Spec2Model ----
(***************************************************************************)
(* Model of viridispalettes.py: the reversible monkey-patch protocol on    *)
(* the host's cmd.spectrum and on menu.by_chain / menu.mol_color /         *)
(* menu.color_auto, the palette registry installation, the viridis         *)
(* command and the mol_color menu splice.                                  *)
(*                                                                         *)
(* Python values are modelled as follows.  A callable is a pair            *)
(* <<name, id>>; None is <<"None", 0>>.  A str that the code edits is a    *)
(* sequence of one-character strings.  A dict is a function whose DOMAIN   *)
(* is its key set.  Python index i is TLA+ index i + 1.                    *)
(***************************************************************************)
EXTENDS Naturals, Integers, Sequences, FiniteSets, TLC

VARIABLES
    cmd_spectrum,           \* the host slot cmd.spectrum
    menu_by_chain,          \* the host slot menu.by_chain
    menu_mol_color,         \* the host slot menu.mol_color
    menu_color_auto,        \* the host slot menu.color_auto
    _original_spectrum,     \* module global, None or the captured callable
    _original_by_chain,
    _original_mol_color,
    _original_color_auto,
    has_viridis_menus,      \* menu.has_viridis_menus: "absent", "True", "False"
    palette_colors_dict,    \* viewing.palette_colors_dict
    all_colors_list,        \* whether `from pymol.menu import all_colors_list` works
    wrappers,               \* how many spectrum_wrapper closures were created
    host_list,              \* the list objects of a host that returns the same
                            \* list on every call of a builder, by builder
    last,                   \* the last operation: its inputs and what it did
    pre                     \* the program state before the last operation

vars == <<cmd_spectrum, menu_by_chain, menu_mol_color, menu_color_auto,
          _original_spectrum, _original_by_chain, _original_mol_color,
          _original_color_auto, has_viridis_menus, palette_colors_dict,
          all_colors_list, wrappers, host_list, last, pre>>

-----------------------------------------------------------------------------
(* Bounds of the model.                                                    *)

\* spectrum_wrapper closures created in one run (each patch_spectrum makes one)
MaxWrappers == 3
\* positional arguments of a cmd.spectrum / viridis call
MaxArgs == 2
\* entries of a menu returned by a host menu builder
MaxMenuLen == 3

-----------------------------------------------------------------------------
(* Callables.                                                              *)

None == <<"None", 0>>
HostSpectrum == <<"host.spectrum", 0>>
HostByChain == <<"host.by_chain", 0>>
HostMolColor == <<"host.mol_color", 0>>
HostColorAuto == <<"host.color_auto", 0>>
ByChainPatch == <<"_by_chain_patch", 0>>
MolColorPatch == <<"_mol_color_patch", 0>>
ColorAutoPatch == <<"_color_auto_patch", 0>>
SpectrumWrapper(k) == <<"spectrum_wrapper", k>>
IsSpectrumWrapper(f) == f[1] = "spectrum_wrapper"

-----------------------------------------------------------------------------
(* Strings and the palette table.                                          *)

\* ' '.join(values)
RECURSIVE Join(_)
Join(values) ==
    IF Len(values) = 0 THEN <<>>
    ELSE IF Len(values) = 1 THEN values[1]
    ELSE values[1] \o <<" ">> \o Join(Tail(values))

\* str.replace('#', '0x'): every occurrence
RECURSIVE Replace(_)
Replace(str) ==
    IF Len(str) = 0 THEN <<>>
    ELSE (IF Head(str) = "#" THEN <<"0", "x">> ELSE <<Head(str)>>)
         \o Replace(Tail(str))

\* str.replace('#', '0x', 1): only the first occurrence
RECURSIVE ReplaceFirst(_)
ReplaceFirst(str) ==
    IF Len(str) = 0 THEN <<>>
    ELSE IF Head(str) = "#" THEN <<"0", "x">> \o Tail(str)
    ELSE <<Head(str)>> \o ReplaceFirst(Tail(str))

format_colors_first_only(values) == ReplaceFirst(Join(values))

format_colors(values) == Replace(Join(values))

\* palettes_data.NEW_PALETTES: palette name -> color stops '#RRGGBB', here
\* two stops of two digits each
NEW_PALETTES ==
    [n \in {"viridis", "magma", "inferno", "plasma", "cividis", "turbo"} |->
        CASE n = "viridis" -> << <<"#", "4", "4">>, <<"#", "F", "D">> >>
          [] n = "magma"   -> << <<"#", "0", "0">>, <<"#", "F", "C">> >>
          [] n = "inferno" -> << <<"#", "0", "1">>, <<"#", "F", "F">> >>
          [] n = "plasma"  -> << <<"#", "0", "C">>, <<"#", "E", "F">> >>
          [] n = "cividis" -> << <<"#", "0", "2">>, <<"#", "F", "E">> >>
          [] n = "turbo"   -> << <<"#", "3", "0">>, <<"#", "7", "A">> >>]

\* a value the host (or the user) stored under a palette name beforehand
HostValue == <<"0", "x", "9", "9">>

\* the key sets of the table's names the host registry may hold at the start
InitialKeys == {{}, {"viridis"}, {"viridis", "magma", "turbo"}, DOMAIN NEW_PALETTES}

\* the host registry at the start: its own "rainbow" and some of the names
HostRegistry(keys) == [k \in keys \cup {"rainbow"} |-> HostValue]

add_palettes(dict) ==
    [k \in DOMAIN dict \cup DOMAIN NEW_PALETTES |->
        IF k \in DOMAIN NEW_PALETTES THEN format_colors(NEW_PALETTES[k])
        ELSE dict[k]]

_has_viridis_palettes(dict) == \A k \in DOMAIN NEW_PALETTES : k \in DOMAIN dict

-----------------------------------------------------------------------------
(* The program state as one record, so that the functions compose as in    *)
(* the source.                                                             *)

Cur ==
    [cmd_spectrum |-> cmd_spectrum, menu_by_chain |-> menu_by_chain,
     menu_mol_color |-> menu_mol_color, menu_color_auto |-> menu_color_auto,
     _original_spectrum |-> _original_spectrum,
     _original_by_chain |-> _original_by_chain,
     _original_mol_color |-> _original_mol_color,
     _original_color_auto |-> _original_color_auto,
     has_viridis_menus |-> has_viridis_menus,
     palette_colors_dict |-> palette_colors_dict,
     all_colors_list |-> all_colors_list, wrappers |-> wrappers]

\* the program state becomes s
Becomes(s) ==
    /\ cmd_spectrum' = s.cmd_spectrum
    /\ menu_by_chain' = s.menu_by_chain
    /\ menu_mol_color' = s.menu_mol_color
    /\ menu_color_auto' = s.menu_color_auto
    /\ _original_spectrum' = s._original_spectrum
    /\ _original_by_chain' = s._original_by_chain
    /\ _original_mol_color' = s._original_mol_color
    /\ _original_color_auto' = s._original_color_auto
    /\ has_viridis_menus' = s.has_viridis_menus
    /\ palette_colors_dict' = s.palette_colors_dict
    /\ all_colors_list' = s.all_colors_list
    /\ wrappers' = s.wrappers

-----------------------------------------------------------------------------
(* The command wrapper protocol.                                           *)

patch_spectrum_recapture(s) ==
    [s EXCEPT !._original_spectrum = s.cmd_spectrum,
              !.cmd_spectrum = SpectrumWrapper(s.wrappers + 1),
              !.wrappers = s.wrappers + 1]

\* patch_spectrum that captures the original and installs nothing
patch_spectrum_capture_only(s) ==
    IF s._original_spectrum = None
    THEN [s EXCEPT !._original_spectrum = s.cmd_spectrum]
    ELSE s

patch_spectrum(s) ==
    LET s1 == IF s._original_spectrum = None
              THEN [s EXCEPT !._original_spectrum = s.cmd_spectrum]
              ELSE s
    IN  [s1 EXCEPT !.cmd_spectrum = SpectrumWrapper(s.wrappers + 1),
                   !.wrappers = s.wrappers + 1]

unpatch_spectrum_keep_slot(s) ==
    IF s._original_spectrum # None
    THEN [s EXCEPT !._original_spectrum = None]
    ELSE s

unpatch_spectrum(s) ==
    IF s._original_spectrum # None
    THEN [s EXCEPT !.cmd_spectrum = s._original_spectrum,
                   !._original_spectrum = None]
    ELSE s

-----------------------------------------------------------------------------
(* The menu patch protocol.                                                *)

\* add_viridis_menus, lines 283-298: capture the three originals, each only
\* when nothing is captured yet, install the three patches, set the flag
install_menu_patches(s) ==
    LET s1 == IF s._original_by_chain = None
              THEN [s EXCEPT !._original_by_chain = s.menu_by_chain] ELSE s
        s2 == IF s1._original_mol_color = None
              THEN [s1 EXCEPT !._original_mol_color = s1.menu_mol_color] ELSE s1
        s3 == IF s2._original_color_auto = None
              THEN [s2 EXCEPT !._original_color_auto = s2.menu_color_auto] ELSE s2
    IN  [s3 EXCEPT !.menu_by_chain = ByChainPatch,
                   !.menu_mol_color = MolColorPatch,
                   !.menu_color_auto = ColorAutoPatch,
                   !.has_viridis_menus = "True"]

\* add_viridis_menus without the early return on the flag
add_viridis_menus_no_guard(s) ==
    LET s1 == IF ~_has_viridis_palettes(s.palette_colors_dict)
              THEN [s EXCEPT !.palette_colors_dict = add_palettes(@)]
              ELSE s
        s2 == patch_spectrum(s1)
    IN  IF ~s2.all_colors_list THEN s2 ELSE install_menu_patches(s2)

\* add_viridis_menus probing the host capability before anything else
add_viridis_menus_probe_first(s) ==
    IF s.has_viridis_menus = "True" \/ ~s.all_colors_list THEN s
    ELSE add_viridis_menus_no_guard(s)

add_viridis_menus(s) ==
    IF s.has_viridis_menus = "True" THEN s
    ELSE
        LET s1 == IF ~_has_viridis_palettes(s.palette_colors_dict)
                  THEN [s EXCEPT !.palette_colors_dict = add_palettes(@)]
                  ELSE s
            s2 == patch_spectrum(s1)
        IN  IF ~s2.all_colors_list THEN s2 ELSE install_menu_patches(s2)

\* the restore of remove_viridis_menus leaving _original_mol_color captured
restore_menus_keeps_capture(s) ==
    [s EXCEPT !.menu_by_chain = s._original_by_chain,
              !._original_by_chain = None,
              !.menu_mol_color = s._original_mol_color,
              !.menu_color_auto = s._original_color_auto,
              !._original_color_auto = None,
              !.has_viridis_menus = "False"]

\* remove_viridis_menus, lines 321-336: restore each captured original and
\* clear the capture, clear the flag
restore_menus(s) ==
    LET s1 == IF s._original_by_chain # None
              THEN [s EXCEPT !.menu_by_chain = s._original_by_chain,
                             !._original_by_chain = None]
              ELSE s
        s2 == IF s1._original_mol_color # None
              THEN [s1 EXCEPT !.menu_mol_color = s1._original_mol_color,
                              !._original_mol_color = None]
              ELSE s1
        s3 == IF s2._original_color_auto # None
              THEN [s2 EXCEPT !.menu_color_auto = s2._original_color_auto,
                              !._original_color_auto = None]
              ELSE s2
    IN  [s3 EXCEPT !.has_viridis_menus = "False"]

\* remove_viridis_menus clearing the flag before it looks at it
remove_viridis_menus_clears_flag(s) ==
    LET s1 == unpatch_spectrum(s)
    IN  IF s1.has_viridis_menus # "True"
        THEN [s1 EXCEPT !.has_viridis_menus = "False"]
        ELSE IF ~s1.all_colors_list THEN s1
        ELSE restore_menus(s1)

remove_viridis_menus(s) ==
    LET s1 == unpatch_spectrum(s)
    IN  IF s1.has_viridis_menus # "True" THEN s1
        ELSE IF ~s1.all_colors_list THEN s1
        ELSE restore_menus(s1)

-----------------------------------------------------------------------------
(* Calls of the color-ramp command.                                        *)

\* values a caller passes as positional arguments
ArgValues == {"count", "rainbow"}
\* the keywords a caller uses, each with the values it passes
KwValues == [palette |-> {"rainbow"}, selection |-> {"all"}]
\* what the host's own spectrum returns
HostReturns == {"host_result"}

EmptyKw == [k \in {} |-> "count"]
\* kwargs[key] = value
SetItem(kwargs, key, value) ==
    [k \in DOMAIN kwargs \cup {key} |-> IF k = key THEN value ELSE kwargs[k]]

ArgTuples == UNION {[1..n -> ArgValues] : n \in 0..MaxArgs}
KwDicts ==
    UNION {{kw \in [K -> UNION {KwValues[k] : k \in K}] :
               \A k \in K : kw[k] \in KwValues[k]} : K \in SUBSET DOMAIN KwValues}

\* the outcome of a call: what the host's own spectrum received (calls times)
\* and what the call returned, or the exception it raised
HostReceives(args, kwargs, ret) ==
    [outcome |-> "ok", calls |-> 1, recvArgs |-> args, recvKwargs |-> kwargs,
     result |-> ret]
Raises(exception) ==
    [outcome |-> exception, calls |-> 0, recvArgs |-> <<>>,
     recvKwargs |-> EmptyKw, result |-> "None"]

\* calling the object held in _original_spectrum
call_original_spectrum(s, args, kwargs, ret) ==
    IF s._original_spectrum = HostSpectrum THEN HostReceives(args, kwargs, ret)
    ELSE IF IsSpectrumWrapper(s._original_spectrum) THEN Raises("RecursionError")
    ELSE Raises("TypeError")

\* a wrapper that injects the default whenever no palette keyword is given
spectrum_wrapper_ignores_args(s, args, kwargs, ret) ==
    call_original_spectrum(s, args,
        IF "palette" \notin DOMAIN kwargs
        THEN SetItem(kwargs, "palette", "turbo") ELSE kwargs, ret)

spectrum_wrapper(s, args, kwargs, ret) ==
    LET kw == IF Len(args) < 2 /\ "palette" \notin DOMAIN kwargs
              THEN SetItem(kwargs, "palette", "turbo")
              ELSE kwargs
    IN  call_original_spectrum(s, args, kw, ret)

\* cmd.spectrum(*args, **kwargs) through whatever the slot holds
call_cmd_spectrum(s, args, kwargs, ret) ==
    IF s.cmd_spectrum = HostSpectrum THEN HostReceives(args, kwargs, ret)
    ELSE IF IsSpectrumWrapper(s.cmd_spectrum)
         THEN spectrum_wrapper(s, args, kwargs, ret)
    ELSE Raises("TypeError")

\* the viridis command; it returns None
viridis(s, args, kwargs, ret) ==
    IF Len(args) >= 1
    THEN IF Len(args) < 2
         THEN Raises("IndexError")
         ELSE [call_cmd_spectrum(s, [args EXCEPT ![2] = "viridis"], kwargs, ret)
                  EXCEPT !.result = "None"]
    ELSE [call_cmd_spectrum(s, args, SetItem(kwargs, "palette", "viridis"), ret)
             EXCEPT !.result = "None"]

-----------------------------------------------------------------------------
(* The mol_color menu splice.                                              *)

\* a menu entry is [kind, text, command]
HostEntry(text) == <<1, text, "host">>
MenuLabels == {"auto", "spectrum"}
HostMenus ==
    UNION {[1..n -> {HostEntry(l) : l \in MenuLabels}] : n \in 0..MaxMenuLen}

\* [1, viridis_col, _viridis_menu(self_cmd, sele)]
ViridisEntry == <<1, "viridis_col", "_viridis_menu">>

Min(S) == CHOOSE x \in S : \A y \in S : x <= y

\* list.insert(i, x), i a Python index
list_insert(r, i, x) ==
    LET n == Len(r)
        j == IF i < 0 THEN (IF i + n < 0 THEN 0 ELSE i + n)
             ELSE IF i > n THEN n ELSE i
    IN  SubSeq(r, 1, j) \o <<x>> \o SubSeq(r, j + 1, n)

Returns(menu) == [outcome |-> "ok", resultMenu |-> menu]
MenuRaises(exception) == [outcome |-> exception, resultMenu |-> <<>>]

\* _mol_color_patch appending the entry when no entry is labelled 'auto'
_mol_color_patch_appends(s, menu) ==
    IF s._original_mol_color = None THEN Returns(<<>>)
    ELSE LET autos == {i \in 1..Len(menu) : menu[i][2] = "auto"}
         IN  IF autos = {} THEN Returns(Append(menu, ViridisEntry))
             ELSE Returns(list_insert(menu, Min(autos) - 2, ViridisEntry))

\* _mol_color_patch when the host's own builder returns `menu`
_mol_color_patch(s, menu) ==
    IF s._original_mol_color = None THEN Returns(<<>>)
    ELSE IF s._original_mol_color = MolColorPatch THEN MenuRaises("RecursionError")
    ELSE
        LET autos == {i \in 1..Len(menu) : menu[i][2] = "auto"}
        IN  IF autos = {} THEN MenuRaises("UnboundLocalError")
            ELSE LET auto_menu_idx == Min(autos) - 1
                 IN  Returns(list_insert(menu, auto_menu_idx - 1, ViridisEntry))

\* menu.mol_color(self_cmd, sele) through whatever the slot holds
call_menu_mol_color(s, menu) ==
    IF s.menu_mol_color = MolColorPatch THEN _mol_color_patch(s, menu)
    ELSE Returns(menu)

-----------------------------------------------------------------------------
(* The state machine.                                                      *)

\* what `last` records of an operation
Observed(op, args, kwargs, menu, r, m) ==
    [op |-> op, args |-> args, kwargs |-> kwargs, menu |-> menu,
     outcome |-> IF op = "menu.mol_color" THEN m.outcome ELSE r.outcome,
     calls |-> r.calls, recvArgs |-> r.recvArgs, recvKwargs |-> r.recvKwargs,
     result |-> r.result, resultMenu |-> m.resultMenu]

NoCall == [outcome |-> "ok", calls |-> 0, recvArgs |-> <<>>,
           recvKwargs |-> EmptyKw, result |-> "None"]
NoMenu == Returns(<<>>)

Plain(op) == Observed(op, <<>>, EmptyKw, <<>>, NoCall, NoMenu)

\* the host's three menu builders
Builders == {"by_chain", "mol_color", "color_auto"}

Init ==
    /\ cmd_spectrum = HostSpectrum
    /\ menu_by_chain = HostByChain
    /\ menu_mol_color = HostMolColor
    /\ menu_color_auto = HostColorAuto
    /\ _original_spectrum = None
    /\ _original_by_chain = None
    /\ _original_mol_color = None
    /\ _original_color_auto = None
    /\ has_viridis_menus = "absent"
    /\ \E keys \in InitialKeys : palette_colors_dict = HostRegistry(keys)
    /\ all_colors_list \in BOOLEAN
    /\ wrappers = 0
    /\ host_list = [b \in Builders |-> <<>>]
    /\ last = Plain("import")
    /\ pre = Cur

\* a lifecycle operation takes the program from Cur to s
Runs(op, s) ==
    /\ s.wrappers <= MaxWrappers
    /\ Becomes(s)
    /\ UNCHANGED host_list
    /\ last' = Plain(op)
    /\ pre' = Cur

AddViridisMenus == Runs("add_viridis_menus", add_viridis_menus(Cur))

RemoveViridisMenus == Runs("remove_viridis_menus", remove_viridis_menus(Cur))

PatchSpectrum == Runs("patch_spectrum", patch_spectrum(Cur))

UnpatchSpectrum == Runs("unpatch_spectrum", unpatch_spectrum(Cur))

AddPalettes ==
    Runs("add_palettes",
         [Cur EXCEPT !.palette_colors_dict = add_palettes(@)])

CallSpectrum ==
    \E args \in ArgTuples, kwargs \in KwDicts, ret \in HostReturns :
        /\ Becomes(Cur)
        /\ UNCHANGED host_list
        /\ last' = Observed("cmd.spectrum", args, kwargs, <<>>,
                            call_cmd_spectrum(Cur, args, kwargs, ret), NoMenu)
        /\ pre' = Cur

CallViridis ==
    \E args \in ArgTuples, kwargs \in KwDicts, ret \in HostReturns :
        /\ Becomes(Cur)
        /\ UNCHANGED host_list
        /\ last' = Observed("viridis", args, kwargs, <<>>,
                            viridis(Cur, args, kwargs, ret), NoMenu)
        /\ pre' = Cur

CallMolColor ==
    \E menu \in HostMenus :
        /\ Becomes(Cur)
        /\ UNCHANGED host_list
        /\ last' = Observed("menu.mol_color", <<>>, EmptyKw, menu, NoCall,
                            call_menu_mol_color(Cur, menu))
        /\ pre' = Cur

Next ==
    \/ AddViridisMenus
    \/ RemoveViridisMenus
    \/ PatchSpectrum
    \/ UnpatchSpectrum
    \/ AddPalettes
    \/ CallSpectrum
    \/ CallViridis
    \/ CallMolColor

Spec == Init /\ [][Next]_vars

-----------------------------------------------------------------------------
(* Colorized menu text.                                                    *)

\* characters of a menu text
MaxTextLen == 3
\* color codes of a palette passed to _colorize_text
MaxPaletteLen == 2

\* '888', the white code
White == <<"8", "8", "8">>
\* '\\%s%s' % (col, ch)
Escape(col, ch) == <<"\\">> \o col \o ch

\* ''.join(text_list)
RECURSIVE Concat(_)
Concat(text_list) ==
    IF Len(text_list) = 0 THEN <<>>
    ELSE Head(text_list) \o Concat(Tail(text_list))

\* the loop without its '(' branch
RECURSIVE colorize_loop_no_paren(_, _, _)
colorize_loop_no_paren(text_list, palette_list, i) ==
    IF i > Len(palette_list) THEN text_list
    ELSE colorize_loop_no_paren(
             [text_list EXCEPT ![i] = Escape(palette_list[i], @)],
             palette_list, i + 1)

\* for i, col in enumerate(palette_list): ..., from index i on
RECURSIVE colorize_loop(_, _, _)
colorize_loop(text_list, palette_list, i) ==
    IF i > Len(palette_list) THEN text_list
    ELSE IF text_list[i] = <<"(">>
         THEN [text_list EXCEPT ![i] = Escape(White, @)]
         ELSE colorize_loop(
                  [text_list EXCEPT ![i] = Escape(palette_list[i], @)],
                  palette_list, i + 1)

Smaller(a, b) == IF a < b THEN a ELSE b

\* _colorize_text going on through the palette after a '('
_colorize_text_no_paren(text, palette) ==
    LET text_list == [i \in 1..Len(text) |-> <<text[i]>>]
        appended == Append(palette, White)
        palette_list == SubSeq(appended, 1, Smaller(Len(appended), Len(text_list)))
    IN  Concat(colorize_loop_no_paren(text_list, palette_list, 1))
            \o <<"\\">> \o White

\* _colorize_text without the white code appended to the palette
_colorize_text_no_white(text, palette) ==
    LET text_list == [i \in 1..Len(text) |-> <<text[i]>>]
        palette_list == SubSeq(palette, 1, Smaller(Len(palette), Len(text_list)))
    IN  Concat(colorize_loop(text_list, palette_list, 1)) \o <<"\\">> \o White

_colorize_text(text, palette) ==
    LET text_list == [i \in 1..Len(text) |-> <<text[i]>>]
        appended == Append(palette, White)
        palette_list == SubSeq(appended, 1, Smaller(Len(appended), Len(text_list)))
    IN  Concat(colorize_loop(text_list, palette_list, 1)) \o <<"\\">> \o White

\* the texts and palettes _colorize_text is applied to
TextChars == {"a", "b", "("}
Texts == UNION {[1..n -> TextChars] : n \in 0..MaxTextLen}
ColorCodes == {<<"1", "0", "0">>, <<"2", "0", "0">>}
Palettes == UNION {[1..n -> ColorCodes] : n \in 0..MaxPaletteLen}

Colorize ==
    \E text \in Texts, palette \in Palettes :
        /\ Becomes(Cur)
        /\ UNCHANGED host_list
        /\ last' = [op |-> "_colorize_text", text |-> text, palette |-> palette,
                    result |-> _colorize_text(text, palette)]
        /\ pre' = Cur

SpecColorize == Init /\ [][Colorize]_vars

-----------------------------------------------------------------------------
(* The by_chain and color_auto menu wrappers.  Here a str is a sequence of *)
(* pieces whose concatenation it is, so that + is \o.                      *)

_viridis8_rgb ==
    << <<"2", "2", "4">>, <<"1", "3", "4">>, <<"1", "4", "5">>,
       <<"1", "5", "4">>, <<"1", "6", "4">>, <<"3", "7", "3">>,
       <<"6", "7", "1">>, <<"8", "8", "1">> >>

\* the selection expressions and the contexts a menu builder is called with
Selections == {"all", "sele"}
Contexts == {"self_cmd", "cmd"}

\* the entries _by_chain_patch appends
by_chain_entries(sele) ==
    LET by_chain_col ==
            _colorize_text(<<"b", "y", " ", "c", "h", "a", "i", "n">>, _viridis8_rgb)
        by_segi_col ==
            _colorize_text(<<"b", "y", " ", "s", "e", "g", "i", " ">>, _viridis8_rgb)
        chainbows_col ==
            _colorize_text(<<"c", "h", "a", "i", "n", "b", "o", "w", "s">>,
                           _viridis8_rgb)
    IN  << <<0, <<>>, <<>>>>,
           <<0, <<>>, <<>>>>,
           <<1, by_chain_col \o <<"(elem C)">>,
               <<"util.color_chains(\"(", sele,
                 " and elem C)\", palette=\"viridis\", _self=cmd)">>>>,
           <<1, by_chain_col \o <<"(*/CA)">>,
               <<"util.color_chains(\"(", sele,
                 " and name CA)\", palette=\"viridis\", _self=cmd)">>>>,
           <<1, by_chain_col,
               <<"util.color_chains(\"(", sele,
                 ")\", palette=\"viridis\", _self=cmd)">>>>,
           <<0, <<>>, <<>>>>,
           <<1, chainbows_col,
               <<"util.chainbow(\"(", sele,
                 ")\", palette=\"viridis\", _self=cmd)">>>>,
           <<0, <<>>, <<>>>>,
           <<1, by_segi_col \o <<"(elem C)">>,
               <<"cmd.spectrum(\"segi\", \"viridis\", \"(", sele,
                 ") & elem C\")">>>>,
           <<1, by_segi_col,
               <<"cmd.spectrum(\"segi\", \"viridis\", \"", sele, "\")">>>> >>

\* the entries _color_auto_patch appends
color_auto_entries(sele) ==
    LET by_obj_col == _colorize_text(<<"b", "y", " ", "o", "b", "j">>, _viridis8_rgb)
        by_obj_c_col ==
            _colorize_text(<<"b", "y", " ", "o", "b", "j", "(", "e", "l", "e",
                             "m", " ", "C", ")">>, _viridis8_rgb)
    IN  << <<0, <<>>, <<>>>>,
           <<1, by_obj_col,
               <<"util.color_objs(\"(", sele,
                 " and elem C)\", palette=\"viridis\", _self=cmd)">>>>,
           <<1, by_obj_c_col,
               <<"util.color_objs(\"(", sele,
                 ")\", palette=\"viridis\", _self=cmd)">>>> >>

\* what a builder call returned, and the argument pairs the host's own
\* builder was called with
Built(menu, origCalls) ==
    [outcome |-> "ok", resultMenu |-> menu, origCalls |-> origCalls]
BuilderRaises(exception) ==
    [outcome |-> exception, resultMenu |-> <<>>, origCalls |-> <<>>]

\* _by_chain_patch handing the global cmd to the original
_by_chain_patch_global_cmd(s, self_cmd, sele, menu) ==
    IF s._original_by_chain = None THEN Built(<<>>, <<>>)
    ELSE Built(menu \o by_chain_entries(sele), << <<"cmd", sele>> >>)

\* _by_chain_patch when the host's own builder returns `menu`
_by_chain_patch(s, self_cmd, sele, menu) ==
    IF s._original_by_chain = None THEN Built(<<>>, <<>>)
    ELSE IF s._original_by_chain = ByChainPatch THEN BuilderRaises("RecursionError")
    ELSE Built(menu \o by_chain_entries(sele), << <<self_cmd, sele>> >>)

\* _color_auto_patch when the host's own builder returns `menu`
_color_auto_patch(s, self_cmd, sele, menu) ==
    IF s._original_color_auto = None THEN Built(<<>>, <<>>)
    ELSE IF s._original_color_auto = ColorAutoPatch
         THEN BuilderRaises("RecursionError")
    ELSE Built(menu \o color_auto_entries(sele), << <<self_cmd, sele>> >>)

\* menu.by_chain(self_cmd, sele) through whatever the slot holds
call_menu_by_chain(s, self_cmd, sele, menu) ==
    IF s.menu_by_chain = ByChainPatch THEN _by_chain_patch(s, self_cmd, sele, menu)
    ELSE Built(menu, << <<self_cmd, sele>> >>)

\* menu.color_auto(self_cmd, sele) through whatever the slot holds
call_menu_color_auto(s, self_cmd, sele, menu) ==
    IF s.menu_color_auto = ColorAutoPatch
    THEN _color_auto_patch(s, self_cmd, sele, menu)
    ELSE Built(menu, << <<self_cmd, sele>> >>)

\* what `last` records of a builder call
BuilderObserved(op, self_cmd, sele, menu, r) ==
    [op |-> op, self_cmd |-> self_cmd, sele |-> sele, menu |-> menu,
     outcome |-> r.outcome, resultMenu |-> r.resultMenu,
     origCalls |-> r.origCalls]

CallByChain ==
    \E self_cmd \in Contexts, sele \in Selections, menu \in HostMenus :
        /\ Becomes(Cur)
        /\ UNCHANGED host_list
        /\ last' = BuilderObserved("menu.by_chain", self_cmd, sele, menu,
                        call_menu_by_chain(Cur, self_cmd, sele, menu))
        /\ pre' = Cur

CallColorAuto ==
    \E self_cmd \in Contexts, sele \in Selections, menu \in HostMenus :
        /\ Becomes(Cur)
        /\ UNCHANGED host_list
        /\ last' = BuilderObserved("menu.color_auto", self_cmd, sele, menu,
                        call_menu_color_auto(Cur, self_cmd, sele, menu))
        /\ pre' = Cur

NextMenus ==
    \/ AddViridisMenus
    \/ RemoveViridisMenus
    \/ CallByChain
    \/ CallColorAuto

SpecMenus == Init /\ [][NextMenus]_vars

-----------------------------------------------------------------------------
(* A host whose builders return the same list object on every call.        *)

\* entries the host's mol_color list may grow to
MaxSharedLen == 5

\* the host's mol_color list object after menu.mol_color(self_cmd, sele):
\* _mol_color_patch inserts into the very list the original returned
mol_color_list_after(s, list) ==
    LET r == _mol_color_patch(s, list)
    IN  IF /\ s.menu_mol_color = MolColorPatch
           /\ s._original_mol_color = HostMolColor
           /\ r.outcome = "ok"
        THEN r.resultMenu
        ELSE list

\* what `last` records of a call whose host builder returned `list`
SharedObserved(builder, list, r) ==
    [op |-> "shared", builder |-> builder, menu |-> list,
     outcome |-> r.outcome, resultMenu |-> r.resultMenu]

InitShared ==
    /\ cmd_spectrum = HostSpectrum
    /\ menu_by_chain = HostByChain
    /\ menu_mol_color = HostMolColor
    /\ menu_color_auto = HostColorAuto
    /\ _original_spectrum = None
    /\ _original_by_chain = None
    /\ _original_mol_color = None
    /\ _original_color_auto = None
    /\ has_viridis_menus = "absent"
    /\ \E keys \in InitialKeys : palette_colors_dict = HostRegistry(keys)
    /\ all_colors_list \in BOOLEAN
    /\ wrappers = 0
    /\ \E menu \in HostMenus : host_list = [b \in Builders |-> menu]
    /\ last = Plain("import")
    /\ pre = Cur

SharedByChain ==
    \E self_cmd \in Contexts, sele \in Selections :
        /\ Becomes(Cur)
        /\ UNCHANGED host_list
        /\ last' = SharedObserved("by_chain", host_list.by_chain,
                        call_menu_by_chain(Cur, self_cmd, sele, host_list.by_chain))
        /\ pre' = Cur

SharedColorAuto ==
    \E self_cmd \in Contexts, sele \in Selections :
        /\ Becomes(Cur)
        /\ UNCHANGED host_list
        /\ last' = SharedObserved("color_auto", host_list.color_auto,
                        call_menu_color_auto(Cur, self_cmd, sele,
                                             host_list.color_auto))
        /\ pre' = Cur

SharedMolColor ==
    /\ Len(host_list.mol_color) < MaxSharedLen
    /\ Becomes(Cur)
    /\ host_list' = [host_list EXCEPT !.mol_color = mol_color_list_after(Cur, @)]
    /\ last' = SharedObserved("mol_color", host_list.mol_color,
                    call_menu_mol_color(Cur, host_list.mol_color))
    /\ pre' = Cur

NextShared ==
    \/ AddViridisMenus
    \/ RemoveViridisMenus
    \/ SharedByChain
    \/ SharedColorAuto
    \/ SharedMolColor

SpecShared == InitShared /\ [][NextShared]_vars

-----------------------------------------------------------------------------
(* Executing the script again in the same namespace.                       *)

\* the names the script may run under; only 'pymol' reaches the call of
\* add_viridis_menus at the end of the script
ModuleNames == {"pymol", "viridispalettes"}

\* the module-level statements: the four globals are bound to None again,
\* the installed wrappers and the host's flag stay as they are
module_level(s, name) ==
    LET s0 == [s EXCEPT !._original_spectrum = None,
                        !._original_by_chain = None,
                        !._original_mol_color = None,
                        !._original_color_auto = None]
    IN  IF name = "pymol" THEN add_viridis_menus(s0) ELSE s0

\* the script is run again while the menus are active
ReExecute ==
    \E name \in ModuleNames :
        /\ has_viridis_menus = "True"
        /\ Runs("reexecute", module_level(Cur, name))

\* one registry is enough here: the palettes play no part
InitReexec == Init /\ palette_colors_dict = HostRegistry(DOMAIN NEW_PALETTES)

NextReexec ==
    \/ AddViridisMenus
    \/ RemoveViridisMenus
    \/ ReExecute
    \/ CallSpectrum
    \/ CallByChain
    \/ CallMolColor
    \/ CallColorAuto

SpecReexec == InitReexec /\ [][NextReexec]_vars

-----------------------------------------------------------------------------
(* Properties.                                                             *)

MenuOriginalsOf(s) ==
    <<s._original_by_chain, s._original_mol_color, s._original_color_auto>>
MenuSlotsOf(s) == <<s.menu_by_chain, s.menu_mol_color, s.menu_color_auto>>
HostMenuSlots == <<HostByChain, HostMolColor, HostColorAuto>>
NothingCaptured(s) ==
    s._original_spectrum = None /\ MenuOriginalsOf(s) = <<None, None, None>>

\* C1: with the host menu capability present, a remove_viridis_menus() that
\* follows an activation leaves cmd.spectrum and the three menu slots holding
\* the host's own callables again, nothing captured and the flag false, in
\* the first round and in every later one.
C1_AddThenRemoveRestores ==
    (all_colors_list /\ last.op = "remove_viridis_menus"
        /\ pre.has_viridis_menus = "True")
    => /\ cmd_spectrum = HostSpectrum
       /\ MenuSlotsOf(Cur) = HostMenuSlots
       /\ NothingCaptured(Cur)
       /\ has_viridis_menus = "False"

C1_Witness ==
    /\ all_colors_list
    /\ last.op = "remove_viridis_menus"
    /\ pre.has_viridis_menus = "True"
    /\ IsSpectrumWrapper(pre.cmd_spectrum)
    /\ MenuSlotsOf(pre) = <<ByChainPatch, MolColorPatch, ColorAutoPatch>>
    /\ wrappers >= 2

\* C2: whatever sequence of add_viridis_menus, remove_viridis_menus,
\* patch_spectrum and unpatch_spectrum ran, each captured original is empty
\* or the host's own callable, never a wrapper of the plugin.
C2_OriginalsAreHostCallables ==
    /\ _original_spectrum \in {None, HostSpectrum}
    /\ _original_by_chain \in {None, HostByChain}
    /\ _original_mol_color \in {None, HostMolColor}
    /\ _original_color_auto \in {None, HostColorAuto}

C2_Witness ==
    /\ last.op = "patch_spectrum"
    /\ IsSpectrumWrapper(pre.cmd_spectrum)
    /\ pre.has_viridis_menus = "True"
    /\ _original_spectrum = HostSpectrum
    /\ cmd_spectrum # pre.cmd_spectrum

\* C3: while the wrapper installed by the activation is in cmd.spectrum, a
\* call with fewer than 2 positional arguments and no palette keyword reaches
\* the host's spectrum once with the same arguments plus palette = "turbo";
\* any other call reaches it once with exactly the caller's arguments; the
\* caller gets the host's result.
C3_WrapperDefaultsToTurbo ==
    (last.op = "cmd.spectrum" /\ IsSpectrumWrapper(cmd_spectrum))
    => /\ last.outcome = "ok"
       /\ last.calls = 1
       /\ last.recvArgs = last.args
       /\ last.result \in HostReturns
       /\ IF Len(last.args) < 2 /\ "palette" \notin DOMAIN last.kwargs
          THEN /\ DOMAIN last.recvKwargs = DOMAIN last.kwargs \cup {"palette"}
               /\ last.recvKwargs["palette"] = "turbo"
               /\ \A k \in DOMAIN last.kwargs : last.recvKwargs[k] = last.kwargs[k]
          ELSE last.recvKwargs = last.kwargs

C3_Witness ==
    /\ last.op = "cmd.spectrum"
    /\ IsSpectrumWrapper(cmd_spectrum)
    /\ has_viridis_menus = "True"
    /\ last.args = <<"count">>
    /\ DOMAIN last.kwargs = {"selection"}
    /\ last.recvKwargs["palette"] = "turbo"

\* C4: every call of the viridis command reaches the color-ramp command
\* exactly once, and the palette that command receives, as its second
\* positional argument or as the palette keyword, is "viridis" and nothing
\* else.
C4_ViridisForcesPalette ==
    last.op = "viridis"
    => /\ last.outcome = "ok"
       /\ last.calls = 1
       /\ \/ Len(last.recvArgs) >= 2 /\ last.recvArgs[2] = "viridis"
          \/ "palette" \in DOMAIN last.recvKwargs
       /\ "palette" \in DOMAIN last.recvKwargs
          => last.recvKwargs["palette"] = "viridis"

\* C5: add_viridis_menus() while the flag is true changes nothing.
C5_AddWhenActiveIsNoOp ==
    (last.op = "add_viridis_menus" /\ pre.has_viridis_menus = "True")
    => Cur = pre

C5_Witness ==
    /\ last.op = "add_viridis_menus"
    /\ pre.has_viridis_menus = "True"
    /\ IsSpectrumWrapper(cmd_spectrum)
    /\ wrappers < MaxWrappers

\* C6: remove_viridis_menus() with the flag absent or false and nothing
\* captured ends normally and changes nothing; so does a second removal
\* after a successful one.
C6_RemoveWhenInactiveIsNoOp ==
    (last.op = "remove_viridis_menus" /\ pre.has_viridis_menus # "True"
        /\ NothingCaptured(pre))
    => Cur = pre /\ last.outcome = "ok"

C6_Witness ==
    /\ last.op = "remove_viridis_menus"
    /\ pre.has_viridis_menus = "False"
    /\ NothingCaptured(pre)
    /\ has_viridis_menus = "False"

\* C7: without the host's menu capability add_viridis_menus() ends normally,
\* leaves the three menu slots and the three captured menu originals as they
\* were and the flag not true, while every palette name is in the registry
\* and cmd.spectrum holds a newly installed wrapper.
C7_NoCapabilityKeepsMenus ==
    (last.op = "add_viridis_menus" /\ ~all_colors_list)
    => /\ last.outcome = "ok"
       /\ MenuSlotsOf(Cur) = MenuSlotsOf(pre)
       /\ MenuOriginalsOf(Cur) = MenuOriginalsOf(pre)
       /\ has_viridis_menus # "True"
       /\ DOMAIN NEW_PALETTES \subseteq DOMAIN palette_colors_dict
       /\ IsSpectrumWrapper(cmd_spectrum)
       /\ cmd_spectrum # pre.cmd_spectrum

C7_Witness ==
    /\ last.op = "add_viridis_menus"
    /\ ~all_colors_list
    /\ pre.cmd_spectrum = HostSpectrum
    /\ ~_has_viridis_palettes(pre.palette_colors_dict)
    /\ MenuSlotsOf(Cur) = HostMenuSlots

\* the table's stops of palette P, each with '#' turned into '0x', separated
\* by single spaces
ExpectedValue(P) ==
    Join([i \in 1..Len(NEW_PALETTES[P]) |-> Replace(NEW_PALETTES[P][i])])

Installs == {"add_viridis_menus", "add_palettes"}

\* C8: after add_viridis_menus() on a registry holding none of the palette
\* names, every palette name P maps to the table's stops joined by single
\* spaces with each '#' replaced by '0x'; an install on a registry that
\* already holds these values leaves each of them unchanged.
C8_PalettesInstalled ==
    /\ (last.op = "add_viridis_menus"
            /\ DOMAIN pre.palette_colors_dict \cap DOMAIN NEW_PALETTES = {})
       => \A P \in DOMAIN NEW_PALETTES :
            /\ P \in DOMAIN palette_colors_dict
            /\ palette_colors_dict[P] = ExpectedValue(P)
    /\ (last.op \in Installs
            /\ \A P \in DOMAIN NEW_PALETTES :
                /\ P \in DOMAIN pre.palette_colors_dict
                /\ pre.palette_colors_dict[P] = ExpectedValue(P))
       => \A P \in DOMAIN NEW_PALETTES :
            /\ P \in DOMAIN palette_colors_dict
            /\ palette_colors_dict[P] = pre.palette_colors_dict[P]

C8_Witness ==
    /\ last.op = "add_viridis_menus"
    /\ DOMAIN pre.palette_colors_dict \cap DOMAIN NEW_PALETTES = {}
    /\ palette_colors_dict["viridis"] =
          <<"0", "x", "4", "4", " ", "0", "x", "F", "D">>
    /\ palette_colors_dict["rainbow"] = HostValue

\* C9: an install only adds entries: every key the registry held before
\* add_palettes() or add_viridis_menus() ran still maps to the same value.
C9_InstallOnlyAdds ==
    last.op \in Installs
    => \A k \in DOMAIN pre.palette_colors_dict :
         /\ k \in DOMAIN palette_colors_dict
         /\ palette_colors_dict[k] = pre.palette_colors_dict[k]

\* C10: when the host's mol_color menu has an entry labelled 'auto', the
\* patched builder returns the host's entries in their order with exactly one
\* new viridis entry, which sits immediately before the 'auto' entry.
C10_ViridisEntryBeforeAuto ==
    (last.op = "menu.mol_color" /\ menu_mol_color = MolColorPatch
        /\ \E i \in 1..Len(last.menu) : last.menu[i][2] = "auto")
    => /\ last.outcome = "ok"
       /\ LET r == last.resultMenu
          IN  \E k \in 1..Len(r) :
                /\ r[k] = ViridisEntry
                /\ k < Len(r)
                /\ r[k + 1][2] = "auto"
                /\ last.menu = SubSeq(r, 1, k - 1) \o SubSeq(r, k + 1, Len(r))

\* the 1-based index of the first '(' of text, Len(text) + 1 when it has none
FirstParen(text) ==
    Min({i \in 1..Len(text) : text[i] = "("} \cup {Len(text) + 1})

\* str without every escape (a backslash and the three characters after it)
RECURSIVE Strip(_)
Strip(str) ==
    IF Len(str) = 0 THEN <<>>
    ELSE IF Head(str) = "\\" THEN Strip(SubSeq(str, 5, Len(str)))
    ELSE <<Head(str)>> \o Strip(Tail(str))

\* C11: _colorize_text puts the escape of the i-th color code before the i-th
\* character for every i before the end of the palette and before the first
\* '('; a '(' met while codes are left gets the white code and nothing after
\* it gets a code; the output ends with the reset marker \888; without the
\* escapes and the marker the output is the text.
C11_ColorizePrefixes ==
    last.op = "_colorize_text"
    => LET text == last.text
           palette == last.palette
           out == last.result
           f == FirstParen(text)
       IN  /\ \A i \in 1..Len(text) :
                (i <= Len(palette) /\ i < f)
                => SubSeq(out, 5 * (i - 1) + 1, 5 * i)
                       = <<"\\">> \o palette[i] \o <<text[i]>>
           /\ (f <= Len(text) /\ f <= Len(palette))
              => /\ SubSeq(out, 5 * (f - 1) + 1, 5 * f)
                       = <<"\\", "8", "8", "8", "(">>
                 /\ SubSeq(out, 5 * f + 1, Len(out) - 4)
                       = SubSeq(text, f + 1, Len(text))
           /\ Len(out) >= 4
           /\ SubSeq(out, Len(out) - 3, Len(out)) = <<"\\", "8", "8", "8">>
           /\ Strip(SubSeq(out, 1, Len(out) - 4)) = text

C11_Witness ==
    /\ last.op = "_colorize_text"
    /\ last.text = <<"a", "(", "b">>
    /\ Len(last.palette) = 2
    /\ last.result = <<"\\", "1", "0", "0", "a", "\\", "8", "8", "8", "(", "b",
                       "\\", "8", "8", "8">>

\* C12 as stated: the length of the returned string is len(text) plus the
\* length of the reset marker.
C12_LengthIsTextPlusMarker ==
    last.op = "_colorize_text"
    => Len(last.result) = Len(last.text) + 4

\* C12 as amended: the length of the returned string is len(text) plus the
\* length of the reset marker plus 4 for every character that got an escape;
\* these are the characters up to and including the first '(' when it lies
\* within the first len(palette) + 1 characters, else the first
\* min(len(text), len(palette) + 1) characters.
C12_LengthCountsEscapes ==
    last.op = "_colorize_text"
    => LET n == Len(last.text)
           reach == Smaller(n, Len(last.palette) + 1)
           f == FirstParen(last.text)
           escaped == IF f <= reach THEN f ELSE reach
       IN  Len(last.result) = n + 4 + 4 * escaped

C12_Witness ==
    /\ last.op = "_colorize_text"
    /\ Len(last.text) = 3
    /\ Len(last.palette) = 1
    /\ FirstParen(last.text) = 4
    /\ Len(last.result) = 15

PatchedMenuSlots == <<ByChainPatch, MolColorPatch, ColorAutoPatch>>

\* C13: whatever sequence of the four lifecycle operations ran, a captured
\* original is non-empty exactly while its slot holds the plugin's wrapper:
\* for cmd.spectrum, and for each menu slot, where this is also exactly while
\* the flag is true.
C13_CapturedIffPatched ==
    /\ _original_spectrum # None <=> IsSpectrumWrapper(cmd_spectrum)
    /\ \A i \in 1..3 :
         /\ MenuOriginalsOf(Cur)[i] # None
               <=> MenuSlotsOf(Cur)[i] = PatchedMenuSlots[i]
         /\ MenuSlotsOf(Cur)[i] = PatchedMenuSlots[i]
               <=> has_viridis_menus = "True"

C13_Witness ==
    /\ last.op = "remove_viridis_menus"
    /\ pre.has_viridis_menus = "True"
    /\ MenuOriginalsOf(pre) = HostMenuSlots
    /\ pre._original_spectrum = None
    /\ MenuOriginalsOf(Cur) = <<None, None, None>>

\* C14: when the host's mol_color menu has no entry labelled 'auto', the
\* patched builder returns no menu: the call ends in the error of the
\* unassigned splice index, and no slot, captured original or flag changes.
C14_NoAutoRaises ==
    (last.op = "menu.mol_color" /\ menu_mol_color = MolColorPatch
        /\ \A i \in 1..Len(last.menu) : last.menu[i][2] # "auto")
    => /\ last.outcome = "UnboundLocalError"
       /\ last.resultMenu = <<>>
       /\ Cur = pre

C14_Witness ==
    /\ last.op = "menu.mol_color"
    /\ menu_mol_color = MolColorPatch
    /\ _original_mol_color = HostMolColor
    /\ last.menu = <<HostEntry("spectrum"), HostEntry("spectrum")>>
    /\ last.outcome = "UnboundLocalError"

\* C16 as stated: the flag being true implies that cmd.spectrum holds the
\* turbo-default wrapper.
C16_FlagImpliesSpectrumWrapper ==
    has_viridis_menus = "True" => IsSpectrumWrapper(cmd_spectrum)

\* C16 as amended: the flag being true implies that the three menu slots hold
\* their patch functions; cmd.spectrum holds the wrapper when the flag
\* becomes true, and while the flag is true only unpatch_spectrum() takes the
\* wrapper out of cmd.spectrum.
C16_FlagImpliesMenusPatched ==
    has_viridis_menus = "True"
    => /\ MenuSlotsOf(Cur) = PatchedMenuSlots
       /\ pre.has_viridis_menus # "True" => IsSpectrumWrapper(cmd_spectrum)
       /\ (pre.has_viridis_menus = "True" /\ IsSpectrumWrapper(pre.cmd_spectrum)
              /\ last.op # "unpatch_spectrum")
          => IsSpectrumWrapper(cmd_spectrum)

C16_Witness ==
    /\ has_viridis_menus = "True"
    /\ last.op = "unpatch_spectrum"
    /\ IsSpectrumWrapper(pre.cmd_spectrum)
    /\ cmd_spectrum = HostSpectrum
    /\ MenuSlotsOf(Cur) = PatchedMenuSlots

\* C15: while patched, the by_chain and the color_auto wrapper each call the
\* captured original once with the (context, selection) they received, and
\* return the original's entries, unchanged and in order, followed by 10
\* (by_chain) or 3 (color_auto) appended entries.
C15_WrappersAppend ==
    /\ (last.op = "menu.by_chain" /\ menu_by_chain = ByChainPatch)
       => /\ last.outcome = "ok"
          /\ last.origCalls = << <<last.self_cmd, last.sele>> >>
          /\ Len(last.resultMenu) = Len(last.menu) + 10
          /\ SubSeq(last.resultMenu, 1, Len(last.menu)) = last.menu
    /\ (last.op = "menu.color_auto" /\ menu_color_auto = ColorAutoPatch)
       => /\ last.outcome = "ok"
          /\ last.origCalls = << <<last.self_cmd, last.sele>> >>
          /\ Len(last.resultMenu) = Len(last.menu) + 3
          /\ SubSeq(last.resultMenu, 1, Len(last.menu)) = last.menu

C15_Witness ==
    /\ last.op = "menu.by_chain"
    /\ menu_by_chain = ByChainPatch
    /\ last.self_cmd = "self_cmd"
    /\ last.sele = "sele"
    /\ last.menu = <<HostEntry("spectrum"), HostEntry("auto")>>
    /\ Len(last.resultMenu) = 12
    /\ last.resultMenu[12][3] =
           <<"cmd.spectrum(\"segi\", \"viridis\", \"", "sele", "\")">>

\* C17: with a host that returns the same list object on every call, a call
\* of a patched builder leaves the host's list as it was before the call, and
\* the result of a patched mol_color call holds exactly one viridis submenu
\* entry.
C17_HostListUntouched ==
    (last.op = "shared" /\ last.outcome = "ok")
    => /\ host_list[last.builder] = last.menu
       /\ (last.builder = "mol_color" /\ menu_mol_color = MolColorPatch)
          => Cardinality({i \in 1..Len(last.resultMenu) :
                              last.resultMenu[i] = ViridisEntry}) = 1

\* C18: when the script may be executed again while the menus are active,
\* every call through cmd.spectrum and through the three menu slots still
\* reaches the host's own callable, a remove_viridis_menus() that finds the
\* flag set leaves the host's callables in all four slots, and no captured
\* original is ever a wrapper.
C18_ReExecuteKeepsProtocol ==
    /\ last.op = "cmd.spectrum" => (last.outcome = "ok" /\ last.calls = 1)
    /\ last.op \in {"menu.by_chain", "menu.color_auto"}
       => (last.outcome = "ok"
           /\ last.origCalls = << <<last.self_cmd, last.sele>> >>)
    /\ (/\ last.op = "menu.mol_color"
        /\ \E i \in 1..Len(last.menu) : last.menu[i][2] = "auto")
       => (last.outcome = "ok" /\ Len(last.resultMenu) >= Len(last.menu))
    /\ (last.op = "remove_viridis_menus" /\ pre.has_viridis_menus = "True")
       => (cmd_spectrum = HostSpectrum /\ MenuSlotsOf(Cur) = HostMenuSlots)
    /\ _original_spectrum \in {None, HostSpectrum}
    /\ _original_by_chain \in {None, HostByChain}
    /\ _original_mol_color \in {None, HostMolColor}
    /\ _original_color_auto \in {None, HostColorAuto}

====
